---- MODULE Spec2Model ----
(***************************************************************************)
(* Model of algo_trading: the configuration resolver (core/config.py),     *)
(* the database layer's lazy engine / session factory (db/init_db.py) and  *)
(* the TradePlan table (db/models.py).                                      *)
(*                                                                         *)
(* Python values are written as strings holding their repr ("None", "''",  *)
(* "8000", "'postgresql://x'"); a mapping stored as a section of the       *)
(* structured file is a string whose items SectionItems gives.             *)
(***************************************************************************)
EXTENDS Integers, FiniteSets, Sequences, TLC

VARIABLES
    env,          \* environment / .env: setting name -> value, or Unset
    yamlFile,     \* the file at YAML_PATH (config/config.yaml)
    altFile,      \* the file at the explicit override path
    cache,        \* lru_cache of get_config: call key -> Config
    loads,        \* number of Config objects constructed so far
    last,         \* the last accessor call and what it gave
    dbModule,     \* init_db module: "unloaded", "loaded" or "failed"
    DATABASE_URL, \* init_db.DATABASE_URL
    engine,       \* init_db._engine: 0 is None, else the engine's number
    AsyncSessionLocal, \* 0 is None, else the engine the factory is bound to
    engineMade,   \* number of create_async_engine calls that returned
    factoryMade,  \* number of sessionmaker calls
    sessions,     \* sequence of sessions handed out by get_session
    dbError,      \* the last error raised by the database layer, or "None"
    trade_plan,   \* the trade_plan table: sequence of rows
    helper        \* the create_tables process: where it is and what it did

cfgVars == <<env, yamlFile, altFile, cache, loads, last>>
dbVars == <<dbModule, DATABASE_URL, engine, AsyncSessionLocal, engineMade,
            factoryMade, sessions, dbError>>
vars == <<env, yamlFile, altFile, cache, loads, last, dbModule, DATABASE_URL,
          engine, AsyncSessionLocal, engineMade, factoryMade, sessions,
          dbError, trade_plan, helper>>

----------------------------------------------------------------------------
(* Python values *)

PyNone == "None"
EmptyStr == "''"
Unset == "<unset>"
AttributeError == "<AttributeError>"
ValueError == "<ValueError>"
TypeError == "<TypeError>"

EmptyMap == [k \in {} |-> PyNone]

\* A stored section that is a mapping, and its items.
RiskSection == "{max_position: 10, database_url: 'postgresql://y'}"

EmptyDict == "{}"

SectionItems(v) ==
    IF v = RiskSection
    THEN [k \in {"max_position", "database_url"} |->
            IF k = "max_position" THEN "10" ELSE "'postgresql://y'"]
    ELSE EmptyMap

\* isinstance(v, dict)
IsDict(v) == v \in {RiskSection, EmptyDict}

----------------------------------------------------------------------------
(* class Settings(BaseSettings): the declared fields and their defaults *)

Declared ==
    {"app_env", "debug", "host", "port", "log_level", "database_url",
     "database_echo", "dhan_base_url", "dhan_trading_client_id",
     "dhan_trading_access_token", "dhan_data_client_id",
     "dhan_data_access_token", "dhan_sandbox", "telegram_bot_token",
     "telegram_chat_id", "secret_key"}

FieldDefault(name) ==
    CASE name = "app_env" -> "'development'"
      [] name = "debug" -> "False"
      [] name = "host" -> "'0.0.0.0'"
      [] name = "port" -> "8000"
      [] name = "log_level" -> "'INFO'"
      [] name = "database_echo" -> "False"
      [] name = "dhan_sandbox" -> "True"
      [] OTHER -> PyNone

\* Attributes every pydantic model object has besides its fields (the
\* all-lower-case ones a lower-cased key can name).
ModelMethods == {"dict", "json", "copy"}

BoundMethod(attr) ==
    CASE attr = "dict" -> "<bound method Settings.dict>"
      [] attr = "json" -> "<bound method Settings.json>"
      [] OTHER -> "<bound method Settings.copy>"

\* Settings(): every declared field takes the environment's value when the
\* environment (or .env) sets it, else its declared default.
Settings(e) ==
    [name \in Declared |->
        IF name \in DOMAIN e /\ e[name] # Unset THEN e[name]
        ELSE FieldDefault(name)]

\* Settings.dict()
settings_dict(s) == s

----------------------------------------------------------------------------
(* _load_yaml and the documents it may meet *)

\* A parsed YAML document: type, n (length of a list or string) and items
\* (of a mapping).
NoneDoc == [type |-> "none", n |-> 0, items |-> EmptyMap]
ListDoc(n) == [type |-> "list", n |-> n, items |-> EmptyMap]
StrDoc(n) == [type |-> "str", n |-> n, items |-> EmptyMap]
DictDoc(m) == [type |-> "dict", n |-> 0, items |-> m]

\* bool(doc)
Truthy(doc) ==
    CASE doc.type = "none" -> FALSE
      [] doc.type = "dict" -> DOMAIN doc.items # {}
      [] OTHER -> doc.n > 0

\* `x or {}`
OrEmptyDict(doc) == IF Truthy(doc) THEN doc ELSE DictDoc(EmptyMap)

\* A file: does it exist, can it be opened, does it parse, and to what.
File(exists, readable, parses, doc) ==
    [exists |-> exists, readable |-> readable, parses |-> parses, doc |-> doc]

load_yaml(file) ==
    IF ~file.exists THEN DictDoc(EmptyMap)
    ELSE IF ~file.readable \/ ~file.parses THEN DictDoc(EmptyMap)
    ELSE OrEmptyDict(file.doc)

----------------------------------------------------------------------------
(* class Config *)

\* Config.__init__
Config(id, settings, yaml_config) ==
    [id |-> id, settings |-> settings, yaml |-> OrEmptyDict(yaml_config)]

Ok(v) == [status |-> "ok", val |-> v, map |-> EmptyMap]
OkMap(m) == [status |-> "ok", val |-> "<dict>", map |-> m]
Raise(e) == [status |-> "raise", val |-> e, map |-> EmptyMap]

\* str.lower() on the keys the model passes
Lower(key) ==
    CASE key = "DATABASE_URL" -> "database_url"
      [] key = "Port" -> "port"
      [] key = "DICT" -> "dict"
      [] OTHER -> key

\* getattr(obj, attr, default) on a Settings object
getattr(s, attr, default) ==
    IF attr \in Declared THEN s[attr]
    ELSE IF attr \in ModelMethods THEN BoundMethod(attr)
    ELSE default

\* get_env falling back to the structured file's top-level entry
get_env_or_yaml(c, key, default) ==
    LET v == getattr(c.settings, Lower(key), default)
    IN IF v \in {PyNone, EmptyStr} /\ c.yaml.type = "dict"
          /\ Lower(key) \in DOMAIN c.yaml.items
       THEN Ok(c.yaml.items[Lower(key)])
       ELSE Ok(v)

get_env(c, key, default) == Ok(getattr(c.settings, Lower(key), default))

\* self._yaml.get(key, default): only a dict has .get
yaml_get(y, key, default) ==
    IF y.type # "dict" THEN Raise(AttributeError)
    ELSE IF key \in DOMAIN y.items THEN Ok(y.items[key])
    ELSE Ok(default)

get(c, section, key, default) ==
    LET section_dict == yaml_get(c.yaml, section, EmptyDict)
    IN IF section_dict.status = "raise" THEN section_dict
       ELSE IF ~IsDict(section_dict.val) THEN Ok(default)
       ELSE IF key \in DOMAIN SectionItems(section_dict.val)
            THEN Ok(SectionItems(section_dict.val)[key])
       ELSE Ok(default)

get_section(c, section, default) == yaml_get(c.yaml, section, default)

\* env_val not in (None, "", [])
NotEmpty(v) == v \notin {PyNone, EmptyStr, "[]"}

getitem(c, key) ==
    LET env_val == get_env(c, key, PyNone).val
    IN IF NotEmpty(env_val) THEN Ok(env_val)
       ELSE yaml_get(c.yaml, key, PyNone)

\* dict(self._yaml): a list of one-character strings or a string is a
\* sequence whose elements are not pairs
to_dict(c) ==
    IF c.yaml.type # "dict" THEN Raise(ValueError)
    ELSE LET sd == settings_dict(c.settings)
             upd == {k \in DOMAIN sd : sd[k] # PyNone}
         IN OkMap([k \in (DOMAIN c.yaml.items) \cup upd |->
                      IF k \in upd THEN sd[k] ELSE c.yaml.items[k]])

----------------------------------------------------------------------------
(* get_config and its lru_cache *)

\* A call of get_config: how the argument is passed, and the argument.
Call(style, path) == [style |-> style, path |-> path]

AltPath == "'alt.yaml'"

Calls ==
    {Call("omitted", PyNone)} \cup
    {Call(st, p) : st \in {"positional", "keyword"}, p \in {PyNone, AltPath}}

\* functools._make_key(args, kwds, typed=False): the positional arguments,
\* then a marker and the keyword items; a single str argument is its own key
make_key(call) ==
    CASE call.style = "omitted" -> <<>>
      [] call.style = "positional" /\ call.path = PyNone -> <<PyNone>>
      [] call.style = "positional" -> <<"str", call.path>>
      [] OTHER -> <<"kwd_mark", "yaml_path", call.path>>

\* yaml_p = Path(yaml_path) if yaml_path else YAML_PATH
FileAt(call) == IF call.path = PyNone THEN yamlFile ELSE altFile

\* The body of get_config: runs on a cache miss only.  The cache holds up
\* to 128 keys, more than the calls above can make, so nothing is evicted.
get_config(call) ==
    /\ IF make_key(call) \in DOMAIN cache
       THEN UNCHANGED <<cache, loads>>
       ELSE /\ loads' = loads + 1
            /\ cache' = [k \in DOMAIN cache \cup {make_key(call)} |->
                   IF k \in DOMAIN cache THEN cache[k]
                   ELSE Config(loads + 1, Settings(env),
                               load_yaml(FileAt(call)))]
    /\ last' = [op |-> "get_config", call |-> call, section |-> PyNone,
                key |-> PyNone, default |-> PyNone,
                cfg |-> cache'[make_key(call)],
                result |-> Ok("<Config>")]
    /\ UNCHANGED <<env, yamlFile, altFile>>
    /\ UNCHANGED trade_plan

----------------------------------------------------------------------------
(* The inputs *)

VariedSettings == {"database_url", "port"}

EnvValues(name) ==
    IF name = "database_url"
    THEN {Unset, EmptyStr, "'postgresql://x'", "'postgresql+asyncpg://x'"}
    ELSE {Unset, "0"}

Envs == {e \in [VariedSettings -> UNION {EnvValues(n) : n \in VariedSettings}] :
            \A name \in VariedSettings : e[name] \in EnvValues(name)}

TopKeys == {"database_url", "risk_limits"}
TopValues == {"'postgresql://y'", RiskSection, PyNone}

Mappings == UNION {[ks -> TopValues] : ks \in SUBSET TopKeys}

MaxDocLen == 2

Docs == {NoneDoc} \cup {ListDoc(n) : n \in {0, MaxDocLen}}
        \cup {StrDoc(MaxDocLen)} \cup {DictDoc(m) : m \in Mappings}

YamlFiles ==
    {File(FALSE, FALSE, FALSE, NoneDoc), File(TRUE, FALSE, FALSE, NoneDoc),
     File(TRUE, TRUE, FALSE, NoneDoc)}
    \cup {File(TRUE, TRUE, TRUE, d) : d \in Docs}

AltFiles ==
    {File(FALSE, FALSE, FALSE, NoneDoc),
     File(TRUE, TRUE, TRUE, DictDoc([k \in {"risk_limits"} |-> RiskSection]))}

Keys == {"database_url", "DATABASE_URL", "Port", "risk_limits", "dict",
         "max_position", "nosuch"}
Defaults == {PyNone, "'dflt'"}

NoCall == [op |-> "none", call |-> Call("omitted", PyNone),
           section |-> PyNone, key |-> PyNone, default |-> PyNone,
           cfg |-> Config(0, Settings(EmptyMap), NoneDoc),
           result |-> Ok(PyNone)]

NoFile == File(FALSE, FALSE, FALSE, NoneDoc)

\* create_tables has not been started.
\* exit is the exit status, -1 while the process has not ended.
NotRun == [pc |-> "not_run", attempts |-> 0, output |-> <<>>,
           raised |-> PyNone, exit |-> -1]

CfgInit ==
    /\ env \in Envs
    /\ yamlFile \in YamlFiles
    /\ cache = EmptyMap
    /\ loads = 0
    /\ last = NoCall

DbIdle ==
    /\ dbModule = "unloaded"
    /\ DATABASE_URL = PyNone
    /\ engine = 0
    /\ AsyncSessionLocal = 0
    /\ engineMade = 0
    /\ factoryMade = 0
    /\ sessions = <<>>
    /\ dbError = PyNone

----------------------------------------------------------------------------
(* The accessors, called on a Config that get_config returned *)

Sections == TopKeys \cup {"nosuch"}

Called(op, c, section, key, default, result) ==
    /\ last' = [op |-> op, call |-> last.call, section |-> section,
                key |-> key, default |-> default, cfg |-> c,
                result |-> result]
    /\ UNCHANGED <<env, yamlFile, altFile, cache, loads>>
    /\ UNCHANGED dbVars
    /\ UNCHANGED <<trade_plan, helper>>

GetConfig ==
    get_config(Call("omitted", PyNone)) /\ UNCHANGED dbVars
        /\ UNCHANGED helper

CallGetEnv ==
    \E k \in DOMAIN cache, key \in Keys, default \in Defaults :
        Called("get_env", cache[k], PyNone, key, default,
               get_env(cache[k], key, default))

CallGet ==
    \E k \in DOMAIN cache, section \in Sections, key \in Keys,
       default \in Defaults :
        Called("get", cache[k], section, key, default,
               get(cache[k], section, key, default))

CallGetSection ==
    \E k \in DOMAIN cache, section \in Sections, default \in Defaults :
        Called("get_section", cache[k], section, PyNone, default,
               get_section(cache[k], section, default))

CallGetItem ==
    \E k \in DOMAIN cache, key \in Keys :
        Called("getitem", cache[k], PyNone, key, PyNone,
               getitem(cache[k], key))

CallToDict ==
    \E k \in DOMAIN cache :
        Called("to_dict", cache[k], PyNone, PyNone, PyNone,
               to_dict(cache[k]))

Init ==
    /\ CfgInit
    /\ altFile = NoFile
    /\ DbIdle
    /\ trade_plan = <<>>
    /\ helper = NotRun

Next ==
    \/ GetConfig
    \/ CallGetEnv
    \/ CallGet
    \/ CallGetSection
    \/ CallGetItem
    \/ CallToDict

Spec == Init /\ [][Next]_vars

----------------------------------------------------------------------------
(* get_config under every call shape *)

GetConfigOmitted ==
    get_config(Call("omitted", PyNone)) /\ UNCHANGED dbVars
        /\ UNCHANGED helper

GetConfigPositional ==
    \E path \in {PyNone, AltPath} :
        get_config(Call("positional", path)) /\ UNCHANGED dbVars
            /\ UNCHANGED helper

GetConfigKeyword ==
    \E path \in {PyNone, AltPath} :
        get_config(Call("keyword", path)) /\ UNCHANGED dbVars
            /\ UNCHANGED helper

InitCache ==
    /\ env = [name \in VariedSettings |-> Unset]
    /\ yamlFile \in YamlFiles
    /\ altFile \in AltFiles
    /\ cache = EmptyMap
    /\ loads = 0
    /\ last = NoCall
    /\ DbIdle
    /\ trade_plan = <<>>
    /\ helper = NotRun

NextCache ==
    \/ GetConfigOmitted
    \/ GetConfigPositional
    \/ GetConfigKeyword

SpecCache == InitCache /\ [][NextCache]_vars

----------------------------------------------------------------------------
(* db/init_db.py *)

\* bool(v) is False
Falsy(v) == v \in {PyNone, EmptyStr, "0", "False", "[]", EmptyDict}

\* create_async_engine(url) returns only for a URL that names an async
\* driver; for any other it raises.
CreateOk(url) == url = "'postgresql+asyncpg://x'"

\* Importing the module: cfg = get_config(); DATABASE_URL =
\* cfg.get_env("DATABASE_URL"); raise RuntimeError when it is falsy, else
\* define _engine and AsyncSessionLocal as None.  A failed import leaves no
\* module behind, and importing again runs the module again.
import_init_db ==
    /\ dbModule \in {"unloaded", "failed"}
    /\ get_config(Call("omitted", PyNone))
    /\ LET cfg == cache'[make_key(Call("omitted", PyNone))]
           url == get_env(cfg, "DATABASE_URL", PyNone).val
       IN /\ DATABASE_URL' = url
          /\ IF Falsy(url)
             THEN dbModule' = "failed" /\ dbError' = "RuntimeError"
             ELSE dbModule' = "loaded" /\ dbError' = PyNone
    /\ UNCHANGED <<engine, AsyncSessionLocal, engineMade, factoryMade,
                   sessions>>

ImportInitDb == import_init_db /\ UNCHANGED helper

\* get_engine without its `if _engine is None` test
get_engine_unguarded ==
    IF CreateOk(DATABASE_URL)
    THEN [raised |-> PyNone, engine |-> engineMade + 1,
          factory |-> engineMade + 1, engineMade |-> engineMade + 1,
          factoryMade |-> factoryMade + 1]
    ELSE [raised |-> "InvalidRequestError", engine |-> engine,
          factory |-> AsyncSessionLocal, engineMade |-> engineMade,
          factoryMade |-> factoryMade]

\* get_engine(): what it raises or returns, and the globals after it
get_engine ==
    IF engine # 0
    THEN [raised |-> PyNone, engine |-> engine, factory |-> AsyncSessionLocal,
          engineMade |-> engineMade, factoryMade |-> factoryMade]
    ELSE IF CreateOk(DATABASE_URL)
    THEN [raised |-> PyNone, engine |-> engineMade + 1,
          factory |-> engineMade + 1, engineMade |-> engineMade + 1,
          factoryMade |-> factoryMade + 1]
    ELSE [raised |-> "InvalidRequestError", engine |-> engine,
          factory |-> AsyncSessionLocal, engineMade |-> engineMade,
          factoryMade |-> factoryMade]

SetEngine(r) ==
    /\ engine' = r.engine
    /\ AsyncSessionLocal' = r.factory
    /\ engineMade' = r.engineMade
    /\ factoryMade' = r.factoryMade

DbCall == dbModule = "loaded"

GetEngine ==
    /\ DbCall
    /\ SetEngine(get_engine)
    /\ dbError' = get_engine.raised
    /\ UNCHANGED <<dbModule, DATABASE_URL, sessions>>
    /\ UNCHANGED cfgVars
    /\ UNCHANGED <<trade_plan, helper>>

\* init_db(): get_engine(), then create_all inside engine.begin(), which
\* the database may fail
init_db(created) ==
    /\ DbCall
    /\ SetEngine(get_engine)
    /\ dbError' = IF get_engine.raised # PyNone THEN get_engine.raised
                  ELSE IF created THEN PyNone ELSE "OperationalError"
    /\ UNCHANGED <<dbModule, DATABASE_URL, sessions>>
    /\ UNCHANGED cfgVars
    /\ UNCHANGED trade_plan

InitDb == \E created \in BOOLEAN : init_db(created) /\ UNCHANGED helper

MaxSessions == 2

\* get_session is an async generator function: calling it runs nothing and
\* gives an async generator, which has no __aenter__/__aexit__.
\* `async with get_session() as session:` therefore raises before the body
\* of get_session starts.
AsyncWithGetSession ==
    /\ DbCall
    /\ dbError' = TypeError
    /\ UNCHANGED <<dbModule, DATABASE_URL, engine, AsyncSessionLocal,
                   engineMade, factoryMade, sessions>>
    /\ UNCHANGED cfgVars
    /\ UNCHANGED <<trade_plan, helper>>

\* How a caller drives the generator: iterating it (`async for`), or
\* through contextlib.asynccontextmanager (as a FastAPI dependency is).
Drivers == {"async_for", "asynccontextmanager"}

\* The first __anext__: the body runs to `yield session`.
AcquireSession ==
    \E driver \in Drivers :
        /\ DbCall
        /\ Len(sessions) < MaxSessions
        /\ LET r == IF AsyncSessionLocal = 0 THEN get_engine
                    ELSE [raised |-> PyNone, engine |-> engine,
                          factory |-> AsyncSessionLocal,
                          engineMade |-> engineMade,
                          factoryMade |-> factoryMade]
           IN /\ SetEngine(r)
              /\ dbError' = r.raised
              /\ sessions' =
                   IF r.raised # PyNone THEN sessions
                   ELSE Append(sessions,
                               [driver |-> driver, factory |-> r.factory,
                                use |-> "in_use", state |-> "open",
                                gen |-> "suspended"])
        /\ UNCHANGED <<dbModule, DATABASE_URL>>
        /\ UNCHANGED cfgVars
        /\ UNCHANGED <<trade_plan, helper>>

Release(i, how) ==
    [sessions EXCEPT ![i] = [@ EXCEPT !.use = "ended", !.state = "closed",
                                        !.gen = how]]

\* The caller's block ends normally: the generator is resumed after the
\* yield and leaves `async with AsyncSessionLocal()`, which closes the
\* session.
CallerDone ==
    \E i \in 1..Len(sessions) :
        /\ sessions[i].use = "in_use"
        /\ sessions' = Release(i, "finished")
        /\ UNCHANGED <<dbModule, DATABASE_URL, engine, AsyncSessionLocal,
                       engineMade, factoryMade, dbError>>
        /\ UNCHANGED cfgVars
        /\ UNCHANGED <<trade_plan, helper>>

\* The caller's block raises.  asynccontextmanager throws the error into the
\* generator, whose `async with` closes the session; an `async for` just
\* propagates the error and leaves the generator suspended at the yield.
CallerRaises ==
    \E i \in 1..Len(sessions) :
        /\ sessions[i].use = "in_use"
        /\ sessions' =
             IF sessions[i].driver = "asynccontextmanager"
             THEN Release(i, "finished")
             ELSE [sessions EXCEPT ![i] = [@ EXCEPT !.use = "ended"]]
        /\ dbError' = "CallerError"
        /\ UNCHANGED <<dbModule, DATABASE_URL, engine, AsyncSessionLocal,
                       engineMade, factoryMade>>
        /\ UNCHANGED cfgVars
        /\ UNCHANGED <<trade_plan, helper>>

\* A generator abandoned at the yield is closed when the event loop's
\* finalizer hook runs aclose() on it, if and when it is collected.
FinalizeGen ==
    \E i \in 1..Len(sessions) :
        /\ sessions[i].use = "ended"
        /\ sessions[i].gen = "suspended"
        /\ sessions' = Release(i, "closed")
        /\ UNCHANGED <<dbModule, DATABASE_URL, engine, AsyncSessionLocal,
                       engineMade, factoryMade, dbError>>
        /\ UNCHANGED cfgVars
        /\ UNCHANGED <<trade_plan, helper>>

NextDb ==
    \/ ImportInitDb
    \/ GetEngine
    \/ InitDb
    \/ AsyncWithGetSession
    \/ AcquireSession
    \/ CallerDone
    \/ CallerRaises
    \/ FinalizeGen

SpecDb == Init /\ [][NextDb]_vars

----------------------------------------------------------------------------
(* db/models.py: class TradePlan *)

ExecutionFlagDefault == "Disabled"

\* The values the declaration's comment lists.
ExecutionFlags == {"Disabled", "Enabled", "Traded", "Exited"}

\* The strings callers pass in the model.
FlagInputs == ExecutionFlags \cup {"Bogus", EmptyStr}

MaxRows == 3

\* TradePlan(...): execution_flag is a plain str field with a default and no
\* validator, enum or CHECK constraint; the other columns are left out.
TradePlan(trade_id, flag) ==
    [trade_id |-> trade_id,
     execution_flag |-> IF flag = Unset THEN ExecutionFlagDefault ELSE flag]

\* session.add(TradePlan(...)); commit
InsertTradePlan ==
    \E flag \in FlagInputs \cup {Unset} :
        /\ Len(trade_plan) < MaxRows
        /\ trade_plan' =
             Append(trade_plan, TradePlan(Len(trade_plan) + 1, flag))
        /\ UNCHANGED cfgVars
        /\ UNCHANGED dbVars
        /\ UNCHANGED helper

\* row.execution_flag = flag; commit
UpdateTradePlan ==
    \E i \in 1..Len(trade_plan), flag \in FlagInputs :
        /\ trade_plan' =
             [trade_plan EXCEPT ![i] = TradePlan(trade_plan[i].trade_id, flag)]
        /\ UNCHANGED cfgVars
        /\ UNCHANGED dbVars
        /\ UNCHANGED helper

InitModels ==
    /\ env = [name \in VariedSettings |-> Unset]
    /\ yamlFile = NoFile
    /\ altFile = NoFile
    /\ cache = EmptyMap
    /\ loads = 0
    /\ last = NoCall
    /\ DbIdle
    /\ trade_plan = <<>>
    /\ helper = NotRun

NextModels ==
    \/ InsertTradePlan
    \/ UpdateTradePlan

SpecModels == InitModels /\ [][NextModels]_vars

----------------------------------------------------------------------------
(* db/create_tables.py, run as a script *)

SuccessMsg == "All tables created successfully."
FailMsg == "Table creation failed:"

\* _create with the `raise` of its except clause left out
create_swallows(err) ==
    IF err = PyNone
    THEN [output |-> <<SuccessMsg>>, raised |-> PyNone]
    ELSE [output |-> <<FailMsg>>, raised |-> PyNone]

\* _create(), given what `await init_db()` raised (None when it returned):
\* what it prints and what it raises
create(err) ==
    IF err = PyNone
    THEN [output |-> <<SuccessMsg>>, raised |-> PyNone]
    ELSE [output |-> <<FailMsg>>, raised |-> err]

\* The __main__ block: sys.exit(1) when asyncio.run(_create()) raised, else
\* the script runs off its end.
main_exit(raised) == IF raised # PyNone THEN 1 ELSE 0

\* The script's imports: init_db is imported first, and an error raised by
\* that import ends the process with a traceback and status 1.
HelperImport ==
    /\ helper.pc = "not_run"
    /\ dbModule = "unloaded"
    /\ import_init_db
    /\ helper' =
         IF dbModule' = "failed"
         THEN [pc |-> "exited", attempts |-> 0, output |-> <<"Traceback">>,
               raised |-> dbError', exit |-> 1]
         ELSE [helper EXCEPT !.pc = "main"]

\* asyncio.run(_create()): the one coroutine of the loop, so init_db runs
\* without interleaving.
HelperMain ==
    \E created \in BOOLEAN :
        /\ helper.pc = "main"
        /\ init_db(created)
        /\ LET r == create(dbError')
           IN helper' = [pc |-> "exited", attempts |-> helper.attempts + 1,
                         output |-> r.output, raised |-> r.raised,
                         exit |-> main_exit(r.raised)]

NextHelper ==
    \/ HelperImport
    \/ HelperMain

SpecHelper == Init /\ [][NextHelper]_vars

----------------------------------------------------------------------------
(* What the claims speak of *)

\* The top-level entries of a structured file: those of its mapping, none
\* when the file is missing, unreadable, unparsable or not a mapping.
FileEntries(file) ==
    IF file.exists /\ file.readable /\ file.parses /\ file.doc.type = "dict"
    THEN file.doc.items
    ELSE EmptyMap

\* The structured file is missing, unreadable, unparsable or not a mapping.
InvalidFile(file) ==
    ~(file.exists /\ file.readable /\ file.parses /\ file.doc.type = "dict")

\* The environment-bound value of a declared setting.
EnvBound(name) ==
    IF name \in DOMAIN env /\ env[name] # Unset THEN env[name]
    ELSE FieldDefault(name)

EntryOr(entries, key, default) ==
    IF key \in DOMAIN entries THEN entries[key] ELSE default

\* C1: cfg[key] gives the environment-bound setting of that name when it is
\* present and not None, "" or an empty sequence, and otherwise the
\* structured file's top-level entry for key (None when there is none).
C1_CombinedLookup ==
    last.op = "getitem" =>
        LET name == Lower(last.key)
        IN IF name \in Declared /\ EnvBound(name) \notin {PyNone, EmptyStr, "[]"}
           THEN last.result = Ok(EnvBound(name))
           ELSE last.result = Ok(EntryOr(FileEntries(yamlFile), last.key, PyNone))

\* C2: get_env(key, default) gives the caller's default for every key whose
\* lower-cased form is no declared setting, and the declared default for a
\* declared setting the environment does not set.
C2_GetEnv ==
    last.op = "get_env" =>
        LET name == Lower(last.key)
        IN /\ name \notin Declared => last.result = Ok(last.default)
           /\ (name \in Declared /\ (name \notin DOMAIN env \/ env[name] = Unset))
                 => last.result = Ok(FieldDefault(name))

\* C3: all get_config calls made without an explicit override path (omitted,
\* or None given positionally or by keyword) return one and the same Config
\* instance.
C3_OneDefaultInstance ==
    \A c1, c2 \in {c \in Calls : c.path = PyNone} :
        (make_key(c1) \in DOMAIN cache /\ make_key(c2) \in DOMAIN cache)
            => cache[make_key(c1)].id = cache[make_key(c2)].id

\* C4: with a structured file that is missing, unreadable, unparsable or not
\* a mapping, get_config does not raise, and get, get_section and the
\* combined lookup (for a key the environment gives no value) do not raise
\* and give the caller's default (None for the combined lookup).
C4_InvalidFileIsEmpty ==
    InvalidFile(yamlFile) =>
        /\ last.op = "get_config" => last.result.status = "ok"
        /\ last.op \in {"get", "get_section"}
             => last.result = Ok(last.default)
        /\ (last.op = "getitem"
              /\ ~NotEmpty(get_env(last.cfg, last.key, PyNone).val))
             => last.result = Ok(PyNone)

\* C5: to_dict() gives a mapping holding every non-null environment-bound
\* setting with its value and every top-level key of the structured file
\* that no non-null setting of the same name shadows, with the file's value.
C5_ToDictMerge ==
    last.op = "to_dict" =>
        /\ last.result.status = "ok"
        /\ \A name \in Declared :
              EnvBound(name) # PyNone =>
                  /\ name \in DOMAIN last.result.map
                  /\ last.result.map[name] = EnvBound(name)
        /\ \A k \in DOMAIN FileEntries(yamlFile) :
              ~(k \in Declared /\ EnvBound(k) # PyNone) =>
                  /\ k \in DOMAIN last.result.map
                  /\ last.result.map[k] = FileEntries(yamlFile)[k]

\* C9: get_section gives the stored section, or the caller's default for a
\* section the structured file does not have; get gives the stored value,
\* or the default when the section is absent, is no mapping or lacks the key.
C9_SectionLookups ==
    LET entries == FileEntries(yamlFile)
    IN /\ last.op = "get_section"
            => last.result = Ok(EntryOr(entries, last.section, last.default))
       /\ last.op = "get" =>
            IF last.section \in DOMAIN entries /\ IsDict(entries[last.section])
            THEN last.result =
                   Ok(EntryOr(SectionItems(entries[last.section]), last.key,
                              last.default))
            ELSE last.result = Ok(last.default)

\* C6: with no database URL in the environment (absent or empty),
\* get_config() still gives a Config, and importing init_db fails with
\* RuntimeError before any engine or session factory exists, whatever the
\* structured file holds.
C6_MissingUrlFatalAtDbInit ==
    EnvBound("database_url") \in {PyNone, EmptyStr} =>
        /\ dbModule # "loaded"
        /\ dbModule = "failed" =>
              /\ dbError = "RuntimeError"
              /\ make_key(Call("omitted", PyNone)) \in DOMAIN cache
              /\ last.op = "get_config" /\ last.result.status = "ok"
        /\ engine = 0 /\ AsyncSessionLocal = 0
        /\ engineMade = 0 /\ factoryMade = 0
        /\ sessions = <<>>

C6_Witness ==
    /\ dbModule = "failed"
    /\ env["database_url"] = EmptyStr
    /\ "database_url" \in DOMAIN FileEntries(yamlFile)
    /\ FileEntries(yamlFile)["database_url"] = "'postgresql://y'"
    /\ "risk_limits" \in DOMAIN FileEntries(yamlFile)
    /\ FileEntries(yamlFile)["risk_limits"] = RiskSection

\* C7: the engine and the session factory are each made at most once, on
\* the first call that needs them; once made the engine is never replaced;
\* and the factory exists exactly when the engine does.
C7_LazySingletons ==
    /\ [](/\ engineMade <= 1
          /\ factoryMade <= 1
          /\ (engine = 0) <=> (AsyncSessionLocal = 0)
          /\ (engine = 0) <=> (engineMade = 0))
    /\ [][/\ engine # 0 =>
                (engine' = engine /\ AsyncSessionLocal' = AsyncSessionLocal)
          /\ (engine = 0 /\ engine' # 0) => dbModule = "loaded"]_vars

C7_Witness ==
    /\ engine = 1
    /\ AsyncSessionLocal = 1
    /\ Len(sessions) = MaxSessions
    /\ \A i \in 1..Len(sessions) : sessions[i].factory = 1

\* C8: every session get_session hands out is closed once the caller's use
\* of it has ended, on the normal path and on the path where the caller
\* raises.
C8_SessionsReleased ==
    \A i \in 1..Len(sessions) :
        sessions[i].use = "ended" => sessions[i].state = "closed"

\* C10: every TradePlan row has an execution_flag among Disabled, Enabled,
\* Traded and Exited.
C10_ExecutionFlagDomain ==
    \A i \in 1..Len(trade_plan) :
        trade_plan[i].execution_flag \in ExecutionFlags

\* C11: when table creation fails in create_tables, the failure is printed
\* and re-raised, the process ends with a non-zero status, the success
\* message is not printed and init_db was called exactly once; when it
\* succeeds the process ends with status 0.
C11_HelperExit ==
    /\ helper.attempts <= 1
    /\ helper.pc = "main" => helper.attempts = 0
    /\ (helper.pc = "exited" /\ dbModule = "loaded") =>
          /\ helper.attempts = 1
          /\ IF dbError # PyNone
             THEN /\ helper.raised = dbError
                  /\ helper.exit # 0
                  /\ helper.output = <<FailMsg>>
             ELSE /\ helper.raised = PyNone
                  /\ helper.exit = 0
                  /\ helper.output = <<SuccessMsg>>

C11_Witness ==
    /\ helper.pc = "exited"
    /\ helper.attempts = 1
    /\ engine # 0
    /\ dbError = "OperationalError"
    /\ helper.exit = 1

====
